---- MODULE Spec2Model ----
(***************************************************************************)
(* Model of src/src/main.rs: a Brainfuck interpreter.  main() filters the  *)
(* source text, translates it to a vector of instructions with resolved    *)
(* loop targets, and runs that vector against a growable byte tape.        *)
(*                                                                         *)
(* Characters of the source text are one-character strings.  Standard      *)
(* input and standard output are sequences of bytes (integers in 0..255);  *)
(* a char is its Unicode scalar value.                                     *)
(***************************************************************************)
EXTENDS Integers, Sequences, FiniteSets

\* ------------------------------------------------------------------------
\* Program constants
\* ------------------------------------------------------------------------
MEMORY_INIT_ALLOCATE == 1024
MEMORY_DYN_ALLOCATE == 128

\* ------------------------------------------------------------------------
\* Bounds of the model
\* ------------------------------------------------------------------------
\* longest source text enumerated exhaustively
MaxLen == 3
\* longest standard-input stream (in bytes) enumerated exhaustively
MaxIn == 2
\* fn output is not taken once this many bytes are on standard output
MaxOut == 4
\* Right is not taken once the data pointer is this far right
MaxPtr == 1160

\* ------------------------------------------------------------------------
\* Inputs
\* ------------------------------------------------------------------------
\* the eight characters kept by code.retain
Symbols == {">", "<", "+", "-", ".", ",", "[", "]"}

\* the source alphabet: the eight symbols and one character that is none
SourceChars == Symbols \cup {"a"}

\* bytes on standard input: newline, space, 'A', and the two bytes C5 82
\* that spell U+0142 in UTF-8 (each alone is not valid UTF-8)
NEWLINE == 10
SPACE == 32
StdinBytes == {NEWLINE, SPACE, 65, 197, 130}

SeqsUpTo(S, n) == UNION {[1..k -> S] : k \in 0..n}

\* longer programs run in addition to the exhaustive ones
Idioms ==
    { <<"+", "[", "+", "]">>,
      <<"+", "[", "-", "]", "+">>,
      <<"+", "+", "[", ">", "+", "<", "-", "]">>,
      <<"+", "[", ">", "+", "]">>,
      <<"+", "[", "[", "-", "]", "]", "+", "+">>,
      <<"-", "[", ".", "+", "]">> }

Sources == SeqsUpTo(SourceChars, MaxLen) \cup Idioms

\* longer input streams supplied in addition to the exhaustive ones
LongStreams ==
    { <<65, NEWLINE, 197, 130, NEWLINE, SPACE, 65>>,
      <<SPACE, 197, 130, 65, NEWLINE, 65, NEWLINE>>,
      <<65, NEWLINE, 130, NEWLINE>>,
      <<226, 128, 131, 226, 130, 172, NEWLINE, 240, 159, 152, 128>> }

Streams == SeqsUpTo(StdinBytes, MaxIn) \cup LongStreams

Contains(s, c) == \E i \in 1..Len(s) : s[i] = c

\* ------------------------------------------------------------------------
\* State
\* ------------------------------------------------------------------------
VARIABLES
    pc,                  \* position of main: "retain", "scan", "run", "done", "panicked"
    err,                 \* the panic message, "none" while there is none
    source,              \* the text main obtained from its arguments or file
    code,                \* main's String `code`
    pos,                 \* number of characters of code the for loop has taken
    compiled,            \* main's `compiled`, later interpreter.code
    loop_stack,          \* main's `loop_stack`
    index,               \* main's `index`
    memory,              \* interpreter.memory
    memory_pointer,      \* interpreter.memory_pointer
    instruction_pointer, \* interpreter.instruction_pointer
    reached,             \* history: the largest value memory_pointer has had
    stdin,               \* the bytes of the standard input stream
    stdin_pos,           \* how many of them have been read
    stdout               \* bytes written to standard output

vars == <<pc, err, source, code, pos, compiled, loop_stack, index, memory,
          memory_pointer, instruction_pointer, reached, stdin, stdin_pos, stdout>>

translator == <<source, code, pos, compiled, loop_stack, index>>
engine == <<memory, memory_pointer, instruction_pointer, reached>>

\* the bytes still to be read from standard input
Unread == SubSeq(stdin, stdin_pos + 1, Len(stdin))

\* ------------------------------------------------------------------------
\* Pure helpers
\* ------------------------------------------------------------------------
\* Retain, had nothing been filtered out
Retain_KeepAll(s) == s

\* the closure |c| "<>+-.,[]".contains(c)
Kept(c) == c \in Symbols

\* code.retain(|c| "<>+-.,[]".contains(c))
Retain(s) == SelectSeq(s, Kept)

\* an Instruction; arg is the usize of BeginLoop/EndLoop and 0 otherwise
Instr(o, a) == [op |-> o, arg |-> a]

\* the instruction the translator pushes for a non-loop symbol
Plain(c) ==
    CASE c = ">" -> Instr("Right", 0)
      [] c = "<" -> Instr("Left", 0)
      [] c = "+" -> Instr("Increment", 0)
      [] c = "-" -> Instr("Decrement", 0)
      [] c = "." -> Instr("Print", 0)
      [] c = "," -> Instr("Read", 0)

\* Zeros, had the cells been filled with ones
Zeros_Ones(n) == [i \in 1..n |-> 1]

\* vec![0; n]
Zeros(n) == [i \in 1..n |-> 0]

\* self.memory[self.memory_pointer]  (Vec indices are 0-based)
current_memory == memory[memory_pointer + 1]

\* self.code.get(self.instruction_pointer).unwrap()
next_instruction == compiled[instruction_pointer + 1]

\* Dispatch, had a panic not ended the run loop
Dispatch_AfterPanic(o) ==
    /\ pc = "run" \/ (pc = "panicked" /\ memory # <<>>)
    /\ instruction_pointer < Len(compiled)
    /\ next_instruction.op = o

\* the while condition of the run loop holds and the next instruction is o
Dispatch(o) ==
    /\ pc = "run"
    /\ instruction_pointer < Len(compiled)
    /\ next_instruction.op = o

\* Advance, had the pointer been moved by two
Advance_Two(ip) == ip + 2

\* interpreter.instruction_pointer += 1
Advance(ip) == ip + 1

\* ------------------------------------------------------------------------
\* Initial state: main has obtained the source text
\* ------------------------------------------------------------------------
InitWith(srcs, ins) ==
    /\ pc = "retain"
    /\ err = "none"
    /\ source \in srcs
    /\ code = source
    /\ pos = 0
    /\ compiled = <<>>
    /\ loop_stack = <<>>
    /\ index = 0
    /\ memory = <<>>
    /\ memory_pointer = 0
    /\ instruction_pointer = 0
    /\ reached = 0
    /\ stdin \in (IF ~Contains(source, ",") THEN {<<>>}
                  ELSE IF Retain(source) = source /\ Len(source) < MaxLen
                  THEN ins
                  ELSE LongStreams)
    /\ stdin_pos = 0
    /\ stdout = <<>>

Init == InitWith(Sources, Streams)

\* ------------------------------------------------------------------------
\* Translator
\* ------------------------------------------------------------------------
\* code.retain(...)
RetainStep ==
    /\ pc = "retain"
    /\ code' = Retain(code)
    /\ pc' = "scan"
    /\ UNCHANGED <<err, source, pos, compiled, loop_stack, index, engine, stdin, stdin_pos, stdout>>

\* Top, had the stack been read from its other end
Top_Oldest(stack) == stack[1]

\* the value loop_stack.pop() returns: the most recently pushed position
Top(stack) == stack[Len(stack)]

\* Patch, had the placeholder been left in place
Patch_Skipped(c, loop_start, idx) == c

\* compiled[loop_start - 1] = Instruction::BeginLoop(index)
Patch(c, loop_start, idx) == [c EXCEPT ![loop_start] = Instr("BeginLoop", idx)]

\* Unmatched, had the check after the scan been left out
Unmatched_Never(stack) == FALSE

\* !loop_stack.is_empty(), the test before panic!("Unmatched [")
Unmatched(stack) == stack # <<>>

\* one iteration of `for char in code.chars()`
ScanChar ==
    /\ pc = "scan"
    /\ pos < Len(code)
    /\ LET char == code[pos + 1]
           idx == index + 1
       IN  /\ pos' = pos + 1
           /\ CASE char = "[" ->
                     /\ compiled' = Append(compiled, Instr("BeginLoop", 0))
                     /\ loop_stack' = Append(loop_stack, idx)
                     /\ index' = idx
                     /\ UNCHANGED <<pc, err>>
                [] char = "]" ->
                     IF loop_stack = <<>>
                     THEN /\ pc' = "panicked"
                          /\ err' = "Unmatched ]"
                          /\ index' = idx
                          /\ UNCHANGED <<compiled, loop_stack>>
                     ELSE LET loop_start == Top(loop_stack)
                          IN  /\ loop_stack' = SubSeq(loop_stack, 1, Len(loop_stack) - 1)
                              /\ compiled' =
                                    Append(Patch(compiled, loop_start, idx),
                                           Instr("EndLoop", loop_start))
                              /\ index' = idx
                              /\ UNCHANGED <<pc, err>>
                [] char \in Symbols \ {"[", "]"} ->
                     /\ compiled' = Append(compiled, Plain(char))
                     /\ index' = idx
                     /\ UNCHANGED <<pc, err, loop_stack>>
                [] OTHER ->
                     /\ index' = idx - 1
                     /\ UNCHANGED <<pc, err, compiled, loop_stack>>
    /\ UNCHANGED <<source, code, engine, stdin, stdin_pos, stdout>>

\* ScanDone, had the run not waited for the end of the text
ScanDone_Early(p, text) == TRUE

\* code.chars() is exhausted: the for loop has ended
ScanDone(p, text) == p >= Len(text)

\* the check after the loop, then Interpreter::new(compiled)
EndScan ==
    /\ pc = "scan"
    /\ ScanDone(pos, code)
    /\ IF Unmatched(loop_stack)
       THEN /\ pc' = "panicked"
            /\ err' = "Unmatched ["
            /\ UNCHANGED engine
       ELSE /\ pc' = "run"
            /\ memory' = Zeros(MEMORY_INIT_ALLOCATE)
            /\ memory_pointer' = 0
            /\ instruction_pointer' = 0
            /\ reached' = 0
            /\ UNCHANGED err
    /\ UNCHANGED <<translator, stdin, stdin_pos, stdout>>

\* ------------------------------------------------------------------------
\* Standard input and output
\* ------------------------------------------------------------------------
\* char::is_whitespace: the characters with the Unicode property White_Space
IsWhitespace(c) ==
    \/ c \in {9, NEWLINE, 11, 12, 13, SPACE, 133, 160}
    \/ c \in {5760, 8232, 8233, 8239, 8287, 12288}
    \/ c \in 8192..8202

\* a UTF-8 continuation byte
IsCont(x) == x \in 128..191

\* the number of bytes the character that begins at position i of the byte
\* string b takes in UTF-8, or 0 when no valid character begins there
\* (overlong forms, surrogates and values above U+10FFFF are not valid)
Utf8Width(b, i) ==
    IF b[i] < 128 THEN 1
    ELSE IF b[i] \in 194..223 /\ i + 1 <= Len(b) /\ IsCont(b[i + 1]) THEN 2
    ELSE IF /\ b[i] \in 224..239
            /\ i + 2 <= Len(b)
            /\ b[i + 1] \in (IF b[i] = 224 THEN 160..191
                             ELSE IF b[i] = 237 THEN 128..159
                             ELSE 128..191)
            /\ IsCont(b[i + 2])
    THEN 3
    ELSE IF /\ b[i] \in 240..244
            /\ i + 3 <= Len(b)
            /\ b[i + 1] \in (IF b[i] = 240 THEN 144..191
                             ELSE IF b[i] = 244 THEN 128..143
                             ELSE 128..191)
            /\ IsCont(b[i + 2])
            /\ IsCont(b[i + 3])
    THEN 4
    ELSE 0

\* the character the w bytes from position i of b spell
Utf8Char(b, i, w) ==
    CASE w = 1 -> b[i]
      [] w = 2 -> (b[i] - 192) * 64 + (b[i + 1] - 128)
      [] w = 3 -> (b[i] - 224) * 4096 + (b[i + 1] - 128) * 64 + (b[i + 2] - 128)
      [] w = 4 -> (b[i] - 240) * 262144 + (b[i + 1] - 128) * 4096
                     + (b[i + 2] - 128) * 64 + (b[i + 3] - 128)

\* the positions of b at which a character can begin: UTF-8 marks every
\* other byte of a character as a continuation byte
CharStarts(b) == {i \in 1..Len(b) : ~IsCont(b[i])}

\* b is valid UTF-8: it begins with a character, and each character is
\* followed by the next one or by the end
Utf8Valid(b) ==
    /\ b # <<>> => ~IsCont(b[1])
    /\ \A i \in CharStarts(b) :
           /\ Utf8Width(b, i) # 0
           /\ \/ i + Utf8Width(b, i) = Len(b) + 1
              \/ i + Utf8Width(b, i) \in CharStarts(b)

\* the chars a byte string spells in UTF-8, or <<-1>> when it is not valid
\* UTF-8: what read_line leaves in the String, or its Err
Utf8Decode(b) ==
    IF ~Utf8Valid(b) THEN <<-1>>
    ELSE [k \in 1..Cardinality(CharStarts(b)) |->
             LET i == CHOOSE i \in CharStarts(b) :
                          Cardinality({j \in CharStarts(b) : j < i}) = k - 1
             IN  Utf8Char(b, i, Utf8Width(b, i))]

\* number of bytes read_line takes: through the first newline, or all
LineLen(s) ==
    IF \E i \in 1..Len(s) : s[i] = NEWLINE
    THEN CHOOSE i \in 1..Len(s) :
             /\ s[i] = NEWLINE
             /\ \A j \in 1..(i - 1) : s[j] # NEWLINE
    ELSE Len(s)

RECURSIVE TrimStart(_)
TrimStart(s) ==
    IF s # <<>> /\ IsWhitespace(Head(s)) THEN TrimStart(Tail(s)) ELSE s

RECURSIVE TrimEnd(_)
TrimEnd(s) ==
    IF s # <<>> /\ IsWhitespace(s[Len(s)]) THEN TrimEnd(SubSeq(s, 1, Len(s) - 1)) ELSE s

\* Trim, had only the line ending been removed
Trim_EndOnly(s) == TrimEnd(s)

\* str::trim
Trim(s) == TrimEnd(TrimStart(s))

\* `c as u8` for a char c: the low eight bits
AsU8(c) == c % 256

\* the bytes print!("{}", b as char) writes for a u8 b: the UTF-8 encoding
\* of the character U+0000..U+00FF
Utf8(b) == IF b < 128 THEN <<b>> ELSE <<192 + (b \div 64), 128 + (b % 64)>>

\* ------------------------------------------------------------------------
\* Engine: one action per arm of the match in the run loop, each followed
\* by interpreter.instruction_pointer += 1
\* ------------------------------------------------------------------------
\* Grown, had the tape never been resized
Grown_Never(mem, p) == mem

\* Grown, had the resize rebuilt the tape instead of extending it
Grown_Reset(mem, p) ==
    IF p >= Len(mem) THEN Zeros(Len(mem) + MEMORY_DYN_ALLOCATE) ELSE mem

\* the tape after fn right has moved the pointer to p
Grown(mem, p) ==
    IF p >= Len(mem) THEN mem \o Zeros(MEMORY_DYN_ALLOCATE) ELSE mem

\* Store, had the write gone to the first cell
Store_AtZero(mem, p, v) == [mem EXCEPT ![1] = v]

\* context.memory[context.memory_pointer] = v
Store(mem, p, v) == [mem EXCEPT ![p + 1] = v]

\* fn right
Right ==
    /\ Dispatch("Right")
    /\ memory_pointer < MaxPtr
    /\ memory_pointer' = memory_pointer + 1
    /\ memory' = Grown(memory, memory_pointer + 1)
    /\ reached' = IF memory_pointer + 1 > reached THEN memory_pointer + 1 ELSE reached
    /\ instruction_pointer' = Advance(instruction_pointer)
    /\ UNCHANGED <<pc, err, translator, stdin, stdin_pos, stdout>>

\* LeftFails, had the bounds test been left out
LeftFails_Never(p) == FALSE

\* the test `context.memory_pointer == 0` of fn left
LeftFails(p) == p = 0

\* fn left
Left ==
    /\ Dispatch("Left")
    /\ IF LeftFails(memory_pointer)
       THEN /\ pc' = "panicked"
            /\ err' = "Inaccessible memory"
            /\ UNCHANGED <<memory_pointer, instruction_pointer>>
       ELSE /\ memory_pointer' = memory_pointer - 1
            /\ instruction_pointer' = Advance(instruction_pointer)
            /\ UNCHANGED <<pc, err>>
    /\ UNCHANGED <<memory, reached, translator, stdin, stdin_pos, stdout>>

\* Incremented, had the cell stopped at 255
Incremented_Saturating(c) == IF c = 255 THEN 255 ELSE c + 1

\* the value fn increment stores for a cell holding c
Incremented(c) == IF c = 255 THEN 0 ELSE c + 1

\* the value fn decrement stores for a cell holding c
Decremented(c) == IF c = 0 THEN 255 ELSE c - 1

\* fn increment
Increment ==
    /\ Dispatch("Increment")
    /\ memory' = Store(memory, memory_pointer, Incremented(current_memory))
    /\ instruction_pointer' = Advance(instruction_pointer)
    /\ UNCHANGED <<pc, err, memory_pointer, reached, translator, stdin, stdin_pos, stdout>>

\* fn decrement
Decrement ==
    /\ Dispatch("Decrement")
    /\ memory' = Store(memory, memory_pointer, Decremented(current_memory))
    /\ instruction_pointer' = Advance(instruction_pointer)
    /\ UNCHANGED <<pc, err, memory_pointer, reached, translator, stdin, stdin_pos, stdout>>

\* fn output
Output ==
    /\ Dispatch("Print")
    /\ Len(stdout) < MaxOut
    /\ stdout' = stdout \o Utf8(current_memory)
    /\ instruction_pointer' = Advance(instruction_pointer)
    /\ UNCHANGED <<pc, err, memory, memory_pointer, reached, translator, stdin, stdin_pos>>

\* fn input
Read ==
    /\ Dispatch("Read")
    /\ \E n \in {LineLen(Unread)} :
       \E input \in {Utf8Decode(SubSeq(Unread, 1, n))} :
       \E trimmed \in {Trim(input)} :
           /\ stdin_pos' = stdin_pos + n
           /\ IF input = <<-1>>
              THEN /\ pc' = "panicked"
                   \* the unwrap of read_line's Err; the message of the
                   \* panic is: called Result::unwrap() on an Err value:
                   \* Error { kind: InvalidData, message: "stream did not
                   \* contain valid UTF-8" }; err holds a label for it
                   /\ err' = "read_line: stream did not contain valid UTF-8"
                   /\ UNCHANGED <<memory, instruction_pointer>>
              ELSE IF trimmed = <<>>
              THEN /\ pc' = "panicked"
                   /\ err' = "Expected ascii char"
                   /\ UNCHANGED <<memory, instruction_pointer>>
              ELSE /\ memory' = Store(memory, memory_pointer, AsU8(Head(trimmed)))
                   /\ instruction_pointer' = Advance(instruction_pointer)
                   /\ UNCHANGED <<pc, err>>
    /\ UNCHANGED <<memory_pointer, reached, translator, stdin, stdout>>

\* BeginJump, had the jump gone one instruction further
BeginJump_Further(loop_end) == loop_end + 1

\* the pointer the BeginLoop arm assigns when the cell is 0
BeginJump(loop_end) == loop_end - 0

\* EndJump, had the jump gone to loop_start itself
EndJump_NoBackstep(loop_start) == loop_start

\* the pointer the EndLoop arm assigns when the cell is not 0
EndJump(loop_start) == loop_start - 1

\* Repeats, had the loop body never been run again
Repeats_Never(c) == FALSE

\* the test `interpreter.current_memory() != 0` of the EndLoop arm
Repeats(c) == c # 0

\* Instruction::BeginLoop(loop_end) arm
BeginLoop ==
    /\ Dispatch("BeginLoop")
    /\ instruction_pointer' =
          Advance(IF current_memory = 0
                  THEN BeginJump(next_instruction.arg)
                  ELSE instruction_pointer)
    /\ UNCHANGED <<pc, err, memory, memory_pointer, reached, translator, stdin, stdin_pos, stdout>>

\* Instruction::EndLoop(loop_start) arm
EndLoop ==
    /\ Dispatch("EndLoop")
    /\ instruction_pointer' =
          Advance(IF Repeats(current_memory)
                  THEN EndJump(next_instruction.arg)
                  ELSE instruction_pointer)
    /\ UNCHANGED <<pc, err, memory, memory_pointer, reached, translator, stdin, stdin_pos, stdout>>

\* the while condition fails: main returns
Halt ==
    /\ pc = "run"
    /\ instruction_pointer >= Len(compiled)
    /\ pc' = "done"
    /\ UNCHANGED <<err, translator, engine, stdin, stdin_pos, stdout>>

Next ==
    \/ RetainStep
    \/ ScanChar
    \/ EndScan
    \/ Right
    \/ Left
    \/ Increment
    \/ Decrement
    \/ Output
    \/ Read
    \/ BeginLoop
    \/ EndLoop
    \/ Halt

Spec == Init /\ [][Next]_vars

\* ------------------------------------------------------------------------
\* Vocabulary of the properties
\* ------------------------------------------------------------------------
\* translation has succeeded: Interpreter::new has run
Translated == pc \in {"run", "done"} \/ (pc = "panicked" /\ memory # <<>>)

\* the number of occurrences of c among the first k characters of s
Count(s, c, k) == Cardinality({i \in 1..k : s[i] = c})

\* some prefix of s has more "]" than "["
HasUnmatchedClose(s) ==
    \E k \in 1..Len(s) : Count(s, "]", k) > Count(s, "[", k)

\* no "]" without an earlier "[" of its own, and as many "[" as "]"
Balanced(s) ==
    /\ ~HasUnmatchedClose(s)
    /\ Count(s, "[", Len(s)) = Count(s, "]", Len(s))

\* the instruction kind of a symbol
OpOf(c) ==
    CASE c = "[" -> "BeginLoop"
      [] c = "]" -> "EndLoop"
      [] OTHER -> Plain(c).op

IsLoopOp(ins) == ins.op \in {"BeginLoop", "EndLoop"}

\* the instruction at 0-based index i of the instruction sequence
At0(i) == compiled[i + 1]

\* 1-based position of the "]" that closes the "[" at 1-based position i of
\* s: the nearest later position with a balanced text in between
CloseOf(s, i) ==
    CHOOSE j \in (i + 1)..Len(s) :
        /\ s[j] = "]"
        /\ Balanced(SubSeq(s, i + 1, j - 1))

\* 1-based position of the "[" that the "]" at 1-based position j closes
OpenOf(s, j) ==
    CHOOSE i \in 1..(j - 1) :
        /\ s[i] = "["
        /\ Balanced(SubSeq(s, i + 1, j - 1))

\* ------------------------------------------------------------------------
\* C3.  As claimed: after a successful translation, with the instruction
\* sequence indexed from 0, every loop instruction's target is a valid
\* index and seq[seq[i].target].target = i.
\* ------------------------------------------------------------------------
C3_TargetsInverse_ZeroBased ==
    Translated =>
        \A i \in 0..(Len(compiled) - 1) :
            IsLoopOp(At0(i)) =>
                /\ At0(i).arg \in 0..(Len(compiled) - 1)
                /\ At0(At0(i).arg).arg = i

\* C3 as amended: targets are 1-based positions.  After a successful
\* translation every loop instruction's target lies in 1..N, and with the
\* sequence indexed from 0, seq[seq[i].target - 1].target - 1 = i.
C3_TargetsInverse_OneBased ==
    Translated =>
        \A i \in 0..(Len(compiled) - 1) :
            IsLoopOp(At0(i)) =>
                /\ At0(i).arg \in 1..Len(compiled)
                /\ At0(At0(i).arg - 1).arg - 1 = i

\* a translated program with one loop directly inside another
C3_Witness ==
    /\ Translated
    /\ \E i \in 1..(Len(compiled) - 1) :
          compiled[i].op = "BeginLoop" /\ compiled[i + 1].op = "BeginLoop"

\* ------------------------------------------------------------------------
\* C4.  Translation succeeds exactly when the text is balanced; it panics
\* with "Unmatched ]" exactly when some "]" has no pending "[" (at the first
\* such "]", whatever follows it), and with "Unmatched [" exactly when there
\* is no such "]" but some "[" is never closed.
\* ------------------------------------------------------------------------
C4_TranslationOutcome ==
    /\ pc \notin {"retain", "scan"} =>
          /\ Translated <=> Balanced(code)
          /\ err = "Unmatched ]" <=> HasUnmatchedClose(code)
          /\ err = "Unmatched [" <=> (~HasUnmatchedClose(code) /\ ~Balanced(code))
    /\ err = "Unmatched ]" =>
          /\ Count(code, "]", pos) > Count(code, "[", pos)
          /\ ~HasUnmatchedClose(SubSeq(code, 1, pos - 1))
    /\ pc \in {"retain", "scan"} => err = "none"

\* "Unmatched ]" was raised on a text that also has an unclosed "[" after it
C4_Witness ==
    /\ err = "Unmatched ]"
    /\ \E k \in (pos + 1)..Len(code) : code[k] = "["
    /\ Count(code, "[", Len(code)) >= Count(code, "]", Len(code))

\* ------------------------------------------------------------------------
\* C5.  After a successful translation the instructions follow the text
\* symbol by symbol, each "]" is paired with the most recent "[" still
\* open: a BeginLoop at position i and the EndLoop at position j name each
\* other exactly when j closes i, so each pair encloses a balanced text, no
\* two pairs overlap partially, every loop instruction is in exactly one
\* pair, and no BeginLoop keeps the placeholder target 0.  Positions count
\* from 1, as the targets do.
\* ------------------------------------------------------------------------
C5_LifoPairing ==
    Translated =>
        /\ Len(compiled) = Len(code)
        /\ \A i \in 1..Len(code) : compiled[i].op = OpOf(code[i])
        /\ \A i \in 1..Len(code) :
              /\ code[i] = "[" =>
                    /\ compiled[i].arg # 0
                    /\ compiled[i].arg = CloseOf(code, i)
              /\ code[i] = "]" => compiled[i].arg = OpenOf(code, i)
        /\ \A i, k \in 1..Len(code) :
              (code[i] = "[" /\ code[k] = "[" /\ i < k /\ k < compiled[i].arg)
                 => compiled[k].arg < compiled[i].arg

\* a translated program with a loop nested in a loop
C5_Witness ==
    /\ Translated
    /\ \E i, k \in 1..Len(compiled) :
          /\ i < k
          /\ compiled[i].op = "BeginLoop"
          /\ compiled[k].op = "BeginLoop"
          /\ compiled[i].arg > compiled[k].arg

\* ------------------------------------------------------------------------
\* C1.  As claimed: when BeginLoop is executed on a zero cell, the next
\* instruction dispatched is the one right after the matching EndLoop, and
\* the run ends if that EndLoop is the last instruction.
\* (CloseOf is the 1-based position of the matching "]", which is the
\* 0-based index of the instruction after it.)
\* ------------------------------------------------------------------------
C1_SkipResumesAfterLoopEnd ==
    [][ (Dispatch("BeginLoop") /\ current_memory = 0) =>
            LET after == CloseOf(code, instruction_pointer + 1)
            IN  IF after < Len(compiled)
                THEN instruction_pointer' = after
                ELSE instruction_pointer' >= Len(compiled) ]_vars

\* ------------------------------------------------------------------------
\* C2.  Reference semantics: the text is run structurally, every
\* "[" body "]" as `while current cell # 0 do body`.  The other six symbols
\* act as in the engine.
\* ------------------------------------------------------------------------
\* loop iterations the reference semantics runs before it gives up
RefFuel == 300

RefStart ==
    [mem |-> Zeros(MEMORY_INIT_ALLOCATE), ptr |-> 0, rd |-> 0, out |-> <<>>, st |-> "ok"]

RefCell(s) == s.mem[s.ptr + 1]

RefPlain(c, s) ==
    CASE c = ">" ->
           [s EXCEPT !.ptr = s.ptr + 1,
                     !.mem = IF s.ptr + 1 >= Len(s.mem)
                             THEN s.mem \o Zeros(MEMORY_DYN_ALLOCATE)
                             ELSE s.mem]
      [] c = "<" ->
           IF s.ptr = 0 THEN [s EXCEPT !.st = "fault"] ELSE [s EXCEPT !.ptr = s.ptr - 1]
      [] c = "+" -> [s EXCEPT !.mem[s.ptr + 1] = (RefCell(s) + 1) % 256]
      [] c = "-" -> [s EXCEPT !.mem[s.ptr + 1] = (RefCell(s) + 255) % 256]
      [] c = "." -> [s EXCEPT !.out = s.out \o Utf8(RefCell(s))]
      [] c = "," ->
           LET rest == SubSeq(stdin, s.rd + 1, Len(stdin))
               n == LineLen(rest)
               line == Utf8Decode(SubSeq(rest, 1, n))
           IN  IF line = <<-1>> \/ Trim(line) = <<>>
               THEN [s EXCEPT !.rd = s.rd + n, !.st = "fault"]
               ELSE [s EXCEPT !.rd = s.rd + n,
                              !.mem[s.ptr + 1] = AsU8(Head(Trim(line)))]

RECURSIVE RefExec(_, _, _)
RefExec(prog, s, fuel) ==
    IF s.st # "ok" \/ prog = <<>> THEN s
    ELSE IF Head(prog) = "["
    THEN LET j == CloseOf(prog, 1)
         IN  IF RefCell(s) = 0
             THEN RefExec(SubSeq(prog, j + 1, Len(prog)), s, fuel)
             ELSE IF fuel = 0
             THEN [s EXCEPT !.st = "fuel"]
             ELSE RefExec(prog, RefExec(SubSeq(prog, 2, j - 1), s, fuel - 1), fuel - 1)
    ELSE RefExec(Tail(prog), RefPlain(Head(prog), s), fuel)

\* C2 as claimed: a run that ends leaves the output, the tape and the data
\* pointer the reference semantics leaves.
C2_RunRefinesWhileSemantics ==
    pc = "done" =>
        LET r == RefExec(code, RefStart, RefFuel)
        IN  /\ r.st = "ok"
            /\ r.out = stdout
            /\ r.mem = memory
            /\ r.ptr = memory_pointer

\* ------------------------------------------------------------------------
\* C6.  As claimed: when EndLoop is executed on a non-zero cell, the next
\* instruction dispatched is the matching BeginLoop.
\* (OpenOf is the 1-based position of the matching "[", so its 0-based
\* index is OpenOf - 1.)
\* ------------------------------------------------------------------------
C6_BackJumpToLoopBegin ==
    [][ (Dispatch("EndLoop") /\ current_memory # 0) =>
            instruction_pointer' = OpenOf(code, instruction_pointer + 1) - 1 ]_vars

\* C6 as amended: when EndLoop is executed on a non-zero cell, the next
\* instruction dispatched is the one right after the matching BeginLoop
\* (the first instruction of the body, or the EndLoop itself when the body
\* is empty); the tape, the data pointer and the output are unchanged.
C6_BackJumpToLoopBody ==
    [][ (Dispatch("EndLoop") /\ current_memory # 0) =>
            /\ instruction_pointer' = (OpenOf(code, instruction_pointer + 1) - 1) + 1
            /\ instruction_pointer' < Len(compiled)
            /\ UNCHANGED <<memory, memory_pointer, stdout, pc>> ]_vars

\* "+[+]" is back at the first body instruction after one full iteration
C6_Witness ==
    /\ pc = "run"
    /\ code = <<"+", "[", "+", "]">>
    /\ instruction_pointer = 2
    /\ current_memory = 2

\* ------------------------------------------------------------------------
\* C7.  As claimed: an Input on a source that still holds a byte consumes
\* exactly that one byte and stores it in the current cell.
\* ------------------------------------------------------------------------
C7_InputTakesOneByte ==
    [][ (Dispatch("Read") /\ stdin_pos < Len(stdin)) =>
            /\ stdin_pos' = stdin_pos + 1
            /\ memory' = [memory EXCEPT ![memory_pointer + 1] = stdin[stdin_pos + 1]]
            /\ pc' = "run" ]_vars

\* position of the last byte of the line that starts after byte p of b: the
\* next newline, or the end of b
LineEnd(b, p) ==
    IF \E i \in (p + 1)..Len(b) : b[i] = NEWLINE
    THEN CHOOSE i \in (p + 1)..Len(b) :
            b[i] = NEWLINE /\ \A k \in (p + 1)..(i - 1) : b[k] # NEWLINE
    ELSE Len(b)

\* C7 as amended: an Input consumes exactly one line of the source (the
\* bytes through the next newline, or all that remain) and nothing after
\* it.  If the line is valid UTF-8 and has a character that is not
\* whitespace, the current cell, and no other, is overwritten with the low
\* eight bits of the first such character; otherwise the run panics and
\* the tape is unchanged.
C7_InputTakesOneLine ==
    [][ Dispatch("Read") =>
            LET e == LineEnd(stdin, stdin_pos)
                chars == Utf8Decode(SubSeq(stdin, stdin_pos + 1, e))
                seen == {i \in 1..Len(chars) : ~IsWhitespace(chars[i])}
            IN  /\ stdin_pos' = e
                /\ stdin' = stdin
                /\ IF chars # <<-1>> /\ seen # {}
                   THEN LET first == CHOOSE i \in seen : \A k \in seen : i <= k
                        IN  /\ pc' = "run"
                            /\ memory' = [memory EXCEPT ![memory_pointer + 1] =
                                             chars[first] % 256]
                   ELSE /\ pc' = "panicked"
                        /\ memory' = memory ]_vars

\* two Inputs have stored 'A' and then the low byte of U+0142 from the first
\* two lines of a three-line source, and the third line is still unread
C7_Witness ==
    /\ pc = "done"
    /\ code = <<",", ">", ",">>
    /\ stdin_pos = 5
    /\ Len(stdin) = 7
    /\ memory[1] = 65
    /\ memory[2] = 66

\* ------------------------------------------------------------------------
\* C8.  As claimed: every executed Output appends exactly one byte, the
\* value of the current cell, to the output, and no other step changes the
\* output.
\* ------------------------------------------------------------------------
C8_OutputIsCellByte ==
    [][ stdout' = IF Dispatch("Print")
                  THEN Append(stdout, current_memory)
                  ELSE stdout ]_vars

\* ------------------------------------------------------------------------
\* C9.  MoveLeft with the data pointer at 0 panics with "Inaccessible
\* memory" and leaves the data pointer and the tape as they were; MoveLeft
\* with the data pointer at d > 0 succeeds and leaves it at d - 1.  The
\* data pointer is never negative.
\* ------------------------------------------------------------------------
C9_MoveLeft ==
    /\ [](memory_pointer >= 0)
    /\ [][ Dispatch("Left") =>
              IF memory_pointer = 0
              THEN /\ pc' = "panicked"
                   /\ err' = "Inaccessible memory"
                   /\ memory_pointer' = memory_pointer
                   /\ memory' = memory
              ELSE /\ pc' = "run"
                   /\ err' = "none"
                   /\ memory_pointer' = memory_pointer - 1
                   /\ memory' = memory ]_vars

\* a MoveLeft from 1 to 0 succeeded and the next MoveLeft panicked
C9_Witness ==
    /\ pc = "panicked"
    /\ err = "Inaccessible memory"
    /\ instruction_pointer >= 2
    /\ compiled[instruction_pointer].op = "Left"

\* ------------------------------------------------------------------------
\* C10.  Faults are terminal.  A MoveLeft at data pointer 0 and an Input on
\* an exhausted source each panic; the panicking step changes neither the
\* tape, the data pointer, the instruction pointer nor the output; and no
\* step at all is taken once the program has panicked.
\* ------------------------------------------------------------------------
C10_FaultsAreTerminal ==
    [][ /\ pc # "panicked"
        /\ (Dispatch("Left") /\ memory_pointer = 0) =>
              pc' = "panicked" /\ err' = "Inaccessible memory"
        /\ (Dispatch("Read") /\ stdin_pos = Len(stdin)) =>
              pc' = "panicked" /\ err' = "Expected ascii char"
        /\ (pc = "run" /\ pc' = "panicked") =>
              UNCHANGED <<memory, memory_pointer, instruction_pointer, stdout>> ]_vars

\* an Input found the source exhausted after a byte had been written
C10_Witness ==
    /\ pc = "panicked"
    /\ err = "Expected ascii char"
    /\ stdin_pos = Len(stdin)
    /\ stdout # <<>>

\* ------------------------------------------------------------------------
\* C11.  Translation and execution run in sequence.  While the text is
\* being translated, and for ever after a translation that failed, there is
\* no tape, no instruction has been executed, no byte has been written and
\* no byte has been read.  Once there is a tape, the whole text has been
\* scanned, no "[" is pending, the text is balanced and every symbol has
\* its instruction.
\* ------------------------------------------------------------------------
C11_TranslateThenRun ==
    /\ (pc \in {"retain", "scan"} \/ err \in {"Unmatched ]", "Unmatched ["}) =>
          /\ memory = <<>>
          /\ instruction_pointer = 0
          /\ memory_pointer = 0
          /\ stdout = <<>>
          /\ stdin_pos = 0
    /\ (memory # <<>> \/ instruction_pointer # 0 \/ stdout # <<>> \/ stdin_pos # 0) =>
          /\ pos = Len(code)
          /\ loop_stack = <<>>
          /\ Balanced(source)
          /\ Len(compiled) = Len(code)

\* "+.]" has failed at its "]": "+" and "." were translated, not executed
C11_Witness ==
    /\ err = "Unmatched ]"
    /\ Len(compiled) = 2
    /\ compiled[1].op = "Increment"
    /\ compiled[2].op = "Print"
    /\ stdout = <<>>
    /\ memory = <<>>

\* ------------------------------------------------------------------------
\* C12.  Every cell of the tape holds a value in 0..255.  Increment stores
\* (c + 1) mod 256 in the current cell and Decrement (c - 1) mod 256, where
\* c is its value; neither panics.
\* ------------------------------------------------------------------------
C12_CellArithmeticWraps ==
    /\ [](memory \in Seq(0..255))
    /\ [][ /\ Dispatch("Increment") =>
                /\ pc' = "run"
                /\ memory'[memory_pointer + 1] = (current_memory + 1) % 256
           /\ Dispatch("Decrement") =>
                /\ pc' = "run"
                /\ memory'[memory_pointer + 1] = (current_memory - 1) % 256 ]_vars

\* "-+": the cell went 0 -> 255 -> 0
C12_Witness ==
    /\ pc = "done"
    /\ code = <<"-", "+">>
    /\ memory[1] = 0

\* ------------------------------------------------------------------------
\* C13.  MoveRight never panics: it moves the data pointer one to the
\* right, onto a cell of the tape, also past the initial tape length.  A
\* cell the data pointer is on for the first time reads 0: the first cell
\* when the tape is made, the cell a MoveRight reaches beyond all cells
\* reached before, and so every cell beyond those.
\* ------------------------------------------------------------------------
C13_MoveRightReachesZero ==
    /\ [](memory # <<>> =>
             SubSeq(memory, reached + 2, Len(memory)) \in Seq({0}))
    /\ [][ /\ (pc = "scan" /\ pc' = "run") => memory'[1] = 0
           /\ Dispatch("Right") =>
                /\ pc' = "run"
                /\ memory_pointer' = memory_pointer + 1
                /\ memory_pointer' < Len(memory')
                /\ memory_pointer' > reached => memory'[memory_pointer' + 1] = 0 ]_vars

\* the data pointer has just moved past the initial tape and reads 0 there
C13_Witness ==
    /\ pc = "run"
    /\ memory_pointer = MEMORY_INIT_ALLOCATE + 1
    /\ reached = memory_pointer
    /\ current_memory = 0

\* ------------------------------------------------------------------------
\* C14.  Once made, the tape is MEMORY_INIT_ALLOCATE cells plus a whole
\* number of MEMORY_DYN_ALLOCATE cells long.  A step of the engine never
\* shortens it; it lengthens it exactly when it is a MoveRight that brings
\* the data pointer to the tape's length, and then by MEMORY_DYN_ALLOCATE
\* cells, leaving every cell it already had as it was.
\* ------------------------------------------------------------------------
C14_TapeGrowth ==
    /\ [](memory # <<>> =>
             /\ Len(memory) >= MEMORY_INIT_ALLOCATE
             /\ (Len(memory) - MEMORY_INIT_ALLOCATE) % MEMORY_DYN_ALLOCATE = 0)
    /\ [][ pc = "run" =>
             /\ Len(memory') >= Len(memory)
             /\ Len(memory') # Len(memory) <=>
                   (Dispatch("Right") /\ memory_pointer + 1 = Len(memory))
             /\ Len(memory') # Len(memory) =>
                   /\ Len(memory') = Len(memory) + MEMORY_DYN_ALLOCATE
                   /\ \A k \in 1..Len(memory) : memory'[k] = memory[k] ]_vars

\* the tape has grown twice and a cell written before the first growth
\* still holds its value
C14_Witness ==
    /\ pc = "run"
    /\ Len(memory) = MEMORY_INIT_ALLOCATE + 2 * MEMORY_DYN_ALLOCATE
    /\ memory[MEMORY_INIT_ALLOCATE] = 1

\* ------------------------------------------------------------------------
\* C15.  Characters that are none of the eight symbols are no-ops for the
\* translation: its outcome is the outcome for the text with those
\* characters removed.  After the filter, code is the source text without
\* them; index and the instruction sequence count the symbols only; the
\* error, or the instruction sequence with its loop targets, is the one
\* the filtered text determines; a text without symbols gives the empty
\* sequence.
\* ------------------------------------------------------------------------
\* the positions of s that hold a symbol
SymbolAt(s) == {i \in 1..Len(s) : s[i] \in Symbols}

\* the text s without the characters that are no symbols: its k-th
\* character is the symbol of s that has k - 1 symbols before it
Filtered(s) ==
    [k \in 1..Cardinality(SymbolAt(s)) |->
        s[CHOOSE i \in SymbolAt(s) :
              Cardinality({j \in SymbolAt(s) : j < i}) = k - 1]]

\* the instruction the symbol at 1-based position i of the symbol text t
\* stands for, loop targets being 1-based positions in t
InstrOf(t, i) ==
    CASE t[i] = "[" -> Instr("BeginLoop", CloseOf(t, i))
      [] t[i] = "]" -> Instr("EndLoop", OpenOf(t, i))
      [] OTHER -> Plain(t[i])

C15_NonSymbolsAreNoOps ==
    LET t == Filtered(source)
    IN  /\ pc # "retain" => code = t
        /\ pc = "scan" => (index = pos /\ Len(compiled) = pos)
        /\ pc \notin {"retain", "scan"} =>
              /\ err = "Unmatched ]" <=> HasUnmatchedClose(t)
              /\ err = "Unmatched [" <=> (~HasUnmatchedClose(t) /\ ~Balanced(t))
              /\ Translated <=> Balanced(t)
              /\ Translated => compiled = [i \in 1..Len(t) |-> InstrOf(t, i)]
              /\ t = <<>> => (Translated /\ compiled = <<>>)

\* "[a]" was translated to a loop whose targets count the two symbols only
C15_Witness ==
    /\ Translated
    /\ source = <<"[", "a", "]">>
    /\ code = <<"[", "]">>
    /\ compiled = <<Instr("BeginLoop", 2), Instr("EndLoop", 1)>>

\* ------------------------------------------------------------------------
\* The transfer loop: n times "+", then "[>+<-]"
\* ------------------------------------------------------------------------
TransferLoop == <<"[", ">", "+", "<", "-", "]">>

TransferProgram(n) == [i \in 1..n |-> "+"] \o TransferLoop

TransferPrograms == {TransferProgram(n) : n \in 0..255}

\* the transfer programs, and programs that read, write and fault
TransferSources == TransferPrograms \cup Idioms \cup {<<",", ".">>, <<"<">>}

InitTransfer == InitWith(TransferSources, LongStreams)

\* main runs on: a step is taken whenever one can be
SpecTransfer == InitTransfer /\ [][Next]_vars /\ WF_vars(Next)

\* ------------------------------------------------------------------------
\* C16.  For every n in 0..255, the program of n "+" followed by "[>+<-]"
\* runs to its end without a panic, and ends with the first cell 0, the
\* second cell n and the data pointer 0.
\* ------------------------------------------------------------------------
C16_TransferLoop ==
    /\ [](source \in TransferPrograms =>
             /\ pc # "panicked"
             /\ pc = "done" =>
                   /\ memory[1] = 0
                   /\ memory[2] = Len(source) - Len(TransferLoop)
                   /\ memory_pointer = 0)
    /\ source \in TransferPrograms => <>(pc = "done")

\* the program with 255 "+" has ended with 255 in the second cell
C16_Witness ==
    /\ pc = "done"
    /\ source = TransferProgram(255)
    /\ memory[1] = 0
    /\ memory[2] = 255
    /\ memory_pointer = 0


\* ------------------------------------------------------------------------
\* Programs without loops, and one short loop beside them, run under the
\* scheduling of a sequential program: a step that can be taken is taken
\* ------------------------------------------------------------------------
StraightSources ==
    {s \in Sources : ~Contains(s, "[") /\ ~Contains(s, "]")}
        \cup {<<"+", "[", "-", "]", "+">>}

\* standard input for them: nothing at all, or one of the longer streams
StraightStreams == LongStreams \cup {<<>>}

InitStraight == InitWith(StraightSources, StraightStreams)

FairSpec == InitStraight /\ [][Next]_vars /\ WF_vars(Next)

\* the instruction sequence holds no BeginLoop and no EndLoop
LoopFree == \A i \in 1..Len(compiled) : ~IsLoopOp(compiled[i])

\* ------------------------------------------------------------------------
\* C17.  The run ends cleanly exactly when the instruction pointer has
\* reached or passed the end of the instruction sequence.  A program of N
\* instructions without loops that does not panic executes the instructions
\* at 0, 1, .., N - 1 once each, in this order, and then ends; the empty
\* program ends at once with an all-zero tape and no output.
\* ------------------------------------------------------------------------
C17_CleanTermination ==
    /\ [][/\ (pc # "done" /\ pc' = "done") =>
                /\ pc = "run"
                /\ instruction_pointer >= Len(compiled)
                /\ UNCHANGED <<engine, stdin_pos, stdout>>
          /\ (pc = "run" /\ instruction_pointer >= Len(compiled)) => pc' = "done"
          /\ (pc = "run" /\ pc' = "run" /\ LoopFree) =>
                /\ instruction_pointer < Len(compiled)
                /\ instruction_pointer' = instruction_pointer + 1
          /\ pc = "run" => compiled' = compiled]_vars
    /\ [](pc = "done" /\ LoopFree => instruction_pointer = Len(compiled))
    /\ [](pc = "done" /\ compiled = <<>> =>
             /\ instruction_pointer = 0
             /\ memory \in Seq({0})
             /\ memory_pointer = 0
             /\ stdin_pos = 0
             /\ stdout = <<>>)
    /\ [](pc = "run" /\ LoopFree => <>(pc \in {"done", "panicked"}))

\* ",.+" has read a line, written the byte and ended after its third step
C17_Witness ==
    /\ pc = "done"
    /\ compiled = <<Instr("Read", 0), Instr("Print", 0), Instr("Increment", 0)>>
    /\ instruction_pointer = 3
    /\ stdin_pos > 0
    /\ stdout = <<65>>
    /\ memory[1] = 66


\* ------------------------------------------------------------------------
\* C18.  A step of the run loop changes only what its instruction names:
\* never the instruction sequence; Right and Left move the data pointer and
\* change no cell the tape had; Increment, Decrement and Read change at most
\* the cell at the data pointer and not the data pointer; Print, BeginLoop
\* and EndLoop change neither tape nor data pointer; a step of an
\* instruction other than BeginLoop and EndLoop that does not panic moves
\* the instruction pointer by exactly 1.
\* ------------------------------------------------------------------------
C18_StepFrame ==
    [][(pc = "run" /\ instruction_pointer < Len(compiled)) =>
          LET op == next_instruction.op
          IN  /\ compiled' = compiled
              /\ op \in {"Right", "Left"} =>
                    /\ SubSeq(memory', 1, Len(memory)) = memory
                    /\ pc' = "run" => memory_pointer' # memory_pointer
              /\ op \in {"Increment", "Decrement", "Read"} =>
                    /\ memory_pointer' = memory_pointer
                    /\ memory' = [memory EXCEPT ![memory_pointer + 1] =
                                                    memory'[memory_pointer + 1]]
              /\ op \in {"Print", "BeginLoop", "EndLoop"} =>
                    /\ memory' = memory
                    /\ memory_pointer' = memory_pointer
              /\ (op \notin {"BeginLoop", "EndLoop"} /\ pc' = "run") =>
                    instruction_pointer' = instruction_pointer + 1
              /\ op # "Print" => stdout' = stdout
              /\ op # "Read" => stdin_pos' = stdin_pos]_vars

\* "+>+" has ended: each "+" changed the cell under the pointer only
C18_Witness ==
    /\ pc = "done"
    /\ code = <<"+", ">", "+">>
    /\ memory_pointer = 1
    /\ memory[1] = 1
    /\ memory[2] = 1
    /\ instruction_pointer = 3

\* ------------------------------------------------------------------------
\* C19.  Whenever the engine exists, the data pointer is an index of the
\* tape: 0 <= memory_pointer < memory.len().
\* ------------------------------------------------------------------------
C19_PointerInTape ==
    memory # <<>> => (0 <= memory_pointer /\ memory_pointer < Len(memory))

\* the pointer has stepped onto the first cell past the initial tape, and
\* the tape has grown to hold it
C19_Witness ==
    /\ memory_pointer = MEMORY_INIT_ALLOCATE
    /\ Len(memory) = MEMORY_INIT_ALLOCATE + MEMORY_DYN_ALLOCATE


\* ------------------------------------------------------------------------
\* C20.  Every index the program computes is in range.  During the scan
\* each position on loop_stack is a position of compiled that holds the
\* placeholder BeginLoop(0), and a scan step changes an existing instruction
\* only there, from the placeholder to a BeginLoop.  After a successful
\* translation every EndLoop holds a position >= 1, so loop_start - 1 does
\* not underflow; the run loop fetches only at indices 0..N-1; the
\* instruction pointer never exceeds N + 1, also when the run has ended.
\* ------------------------------------------------------------------------
C20_IndicesInRange ==
    /\ [](pc = "scan" =>
             \A k \in 1..Len(loop_stack) :
                 /\ loop_stack[k] \in 1..Len(compiled)
                 /\ compiled[loop_stack[k]] = Instr("BeginLoop", 0))
    /\ [][pc = "scan" =>
             \A k \in 1..Len(compiled) :
                 compiled'[k] # compiled[k] =>
                     /\ loop_stack # <<>>
                     /\ k = loop_stack[Len(loop_stack)]
                     /\ compiled[k] = Instr("BeginLoop", 0)
                     /\ compiled'[k].op = "BeginLoop"]_vars
    /\ [](Translated =>
             /\ \A i \in 1..Len(compiled) :
                    /\ compiled[i].op = "EndLoop" => compiled[i].arg \in 1..i
                    /\ compiled[i].op = "BeginLoop" => compiled[i].arg \in i..Len(compiled)
             /\ instruction_pointer \in 0..(Len(compiled) + 1))
    /\ [][(pc = "run" /\ pc' # "done") => instruction_pointer < Len(compiled)]_vars
    /\ [](pc = "done" =>
             instruction_pointer \in Len(compiled)..(Len(compiled) + 1))

\* "[]" has ended with the instruction pointer one past the end, N + 1
C20_Witness ==
    /\ pc = "done"
    /\ compiled = <<Instr("BeginLoop", 2), Instr("EndLoop", 1)>>
    /\ instruction_pointer = Len(compiled) + 1

====
